---- MODULE Spec2Model ----
(***************************************************************************)
(* Model of kyegomez/Prometheus.                                           *)
(*                                                                         *)
(*   Spec     backbone assembly: MambaModel / MixerModel construction      *)
(*            (src/prometheus/backbone.py)                                 *)
(*   TokSpec  GenomeTokenizer: train / tokenize / detokenize / batches     *)
(*            (src/prometheus/tokenizer.py)                                *)
(***************************************************************************)
EXTENDS Integers, Sequences, FiniteSets, TLC

VARIABLES
    \* ---- backbone.py ----
    target,      \* constructor the caller invoked: "MambaModel" | "MixerModel"
    config,      \* the configuration values as given to the constructor
    kernels,     \* TRUE iff the import at backbone.py:23-30 succeeded
    ssm_cfg,     \* the caller's ssm_cfg dict object (mutable, passed by reference)
    pc,          \* position inside the constructor; "done", then "loaded" by from_pretrained
    err,         \* exception propagated out of the constructor
    table_size,  \* vocab_size handed to nn.Embedding / nn.Linear
    layers,      \* self.layers built so far
    norm_f,      \* self.norm_f
    params,      \* per-layer parameters: <<layer, module, name>> -> value
    emb_weight,  \* tensor object held by backbone.embedding.weight
    lm_weight,   \* tensor object held by lm_head.weight
    store,       \* tensor object -> contents
    cache,       \* the last allocate_inference_cache call: arguments, result
    \* ---- tokenizer.py ----
    model_path,      \* self.model_path
    vocab_size,      \* self.vocab_size
    special_tokens,  \* self.special_tokens
    tokenizer,       \* self.tokenizer: the tokenizers.Tokenizer object
    file,            \* what is stored at self.model_path
    trained,         \* TRUE once a train() call has completed
    tpc,             \* "idle" | "returned" | "raised"
    result           \* the last call: operation, argument, returned value

bbVars == <<target, config, kernels, ssm_cfg, pc, err, table_size, layers,
            norm_f, params, emb_weight, lm_weight, store, cache>>
tokVars == <<model_path, vocab_size, special_tokens, tokenizer, file, trained,
            tpc, result>>
vars == <<bbVars, tokVars>>

-----------------------------------------------------------------------------
(* Bounds of the model *)
MaxLayer == 2
MaxVocab == 3
MaxPad == 3

-----------------------------------------------------------------------------
(* Python dicts: a dict is [none |-> BOOLEAN, items |-> set of <<key, value>>] *)

NoneDict == [none |-> TRUE, items |-> {}]
Dict(s) == [none |-> FALSE, items |-> s]

DictHas(items, k) == \E kv \in items : kv[1] = k
DictGet(items, k, default) ==
    IF DictHas(items, k) THEN (CHOOSE kv \in items : kv[1] = k)[2] ELSE default
DictDel(items, k) == {kv \in items : kv[1] # k}

SsmCfgs ==
    { NoneDict,
      Dict({}),
      Dict({<<"layer", "Mamba1">>}),
      Dict({<<"layer", "Mamba2">>, <<"d_state", "64">>}),
      Dict({<<"layer", "Mamba3">>}) }

Configs ==
    [ n_layer : 0..MaxLayer,
      d_intermediate : {0, 1},
      vocab_size : 0..MaxVocab,
      pad_vocab_size_multiple : 1..MaxPad,
      ssm_cfg : SsmCfgs,
      attn_layer_idx : SUBSET (0..(MaxLayer - 1)),
      rms_norm : BOOLEAN,
      fused_add_norm : BOOLEAN,
      tie_embeddings : BOOLEAN,
      rescale_prenorm_residual : BOOLEAN ]

NoErr == [type |-> "none", msg |-> <<>>]

-----------------------------------------------------------------------------
(* MambaModel.__init__: vocabulary padding *)

\* Mutant of PadVocab: the remainder test is dropped.
PadVocabAlways(size, multiple) ==
    size + (multiple - (size % multiple))

PadVocab(size, multiple) ==
    IF size % multiple # 0
    THEN size + (multiple - (size % multiple))
    ELSE size

-----------------------------------------------------------------------------
(* create_block *)

ValidSsmLayers == {"Mamba1", "Mamba2"}

ValueError(ssm_layer) ==
    [type |-> "ValueError",
     msg |-> <<"Invalid ssm_layer: ", ssm_layer, ", only support Mamba1 and Mamba2">>]
ImportError ==
    [type |-> "ImportError",
     msg |-> <<"Failed to import Triton LayerNorm / RMSNorm kernels">>]
\* RMSNorm is None when the import failed.
\* partial(None, ...) in create_block:
PartialNotCallable == "the first argument must be callable"
\* None(...) where MixerModel.__init__ builds norm_f:
NoneNotCallable == "'NoneType' object is not callable"
TypeError(msg) == [type |-> "TypeError", msg |-> <<msg>>]

NoBlock == [layer_idx |-> -1, mixer |-> "none", mixer_kwargs |-> {},
            mlp |-> "none", norm |-> "none", fused_add_norm |-> FALSE]

\* Mutant of SsmLayerRejected: the value is not validated.
SsmLayerNeverRejected(ssm_layer) == FALSE

SsmLayerRejected(ssm_layer) == ssm_layer \notin ValidSsmLayers

\* Mutant of DeepCopyRef: the dict is modified in place, no copy is taken.
NoCopyRef(ref) == ref

\* The object the local name ssm_cfg is bound to after copy.deepcopy:
\* a new object, distinct from the one `ref` names.
DeepCopyRef(ref) == "copy"

IsAttnLayer(layer_idx, attn_layer_idx) == layer_idx \in attn_layer_idx

\* The result of one create_block call: the exception it raises (if any), the
\* block it returns, and the caller's ssm_cfg object as the call leaves it.
\* Dict objects live in a small heap: the caller's dict, the {} of line 48
\* and the deep copy of line 56.
create_block(d_intermediate, cfg, attn_layer_idx, rms_norm, fused_add_norm, layer_idx, have_kernels) ==
    LET ref0 == IF cfg.none THEN "fresh" ELSE "caller"
        heap0 == [caller |-> cfg.items, fresh |-> {}, copy |-> {}]
        is_ssm == ~IsAttnLayer(layer_idx, attn_layer_idx)
        ref1 == DeepCopyRef(ref0)
        heap1 == [heap0 EXCEPT ![ref1] = heap0[ref0]]
        ssm_layer == DictGet(heap1[ref1], "layer", "Mamba1")
        heap2 == [heap1 EXCEPT ![ref1] = DictDel(heap1[ref1], "layer")]
        heapF == IF is_ssm THEN heap2 ELSE heap0
        caller_after == IF cfg.none THEN cfg ELSE Dict(heapF.caller)
        block == [layer_idx |-> layer_idx,
                  mixer |-> IF ~is_ssm THEN "MHA"
                            ELSE IF ssm_layer = "Mamba2" THEN "Mamba2" ELSE "Mamba",
                  mixer_kwargs |-> IF is_ssm THEN heap2[ref1] ELSE {},
                  mlp |-> IF d_intermediate = 0 THEN "Identity" ELSE "GatedMLP",
                  norm |-> IF ~rms_norm THEN "LayerNorm" ELSE "RMSNorm",
                  fused_add_norm |-> fused_add_norm]
    IN  IF is_ssm /\ SsmLayerRejected(ssm_layer)
        THEN [raised |-> ValueError(ssm_layer), caller |-> caller_after, block |-> NoBlock]
        ELSE IF rms_norm /\ ~have_kernels
        THEN [raised |-> TypeError(PartialNotCallable), caller |-> caller_after, block |-> NoBlock]
        ELSE [raised |-> NoErr, caller |-> caller_after, block |-> block]

\* Parameters a new block registers, keyed <<layer, submodule, name>>, with
\* the value their own constructors gave them.
CtorWeight == [init |-> "ctor", divs |-> <<>>]
BlockParamKeys(block) ==
    {<<block.layer_idx, "mixer", "in_proj.weight">>,
     <<block.layer_idx, "mixer", "out_proj.weight">>}
    \cup (IF block.mlp = "GatedMLP"
          THEN {<<block.layer_idx, "mlp", "fc1.weight">>,
                <<block.layer_idx, "mlp", "fc2.weight">>}
          ELSE {})

-----------------------------------------------------------------------------
(* _init_weights, as module.apply runs it over the whole module tree *)

RescaledNames == {"out_proj.weight", "fc2.weight"}

KaimingUniform(p) == [init |-> "kaiming_uniform", divs |-> <<>>]
\* p /= math.sqrt(x): the weight remembers the x of every division
DivSqrt(p, x) == [p EXCEPT !.divs = Append(@, x)]

\* One parameter under one apply pass. named_parameters() yields the name
\* relative to the visited module, so the bare names of RescaledNames match
\* only at the parameter's direct grandparent (the mixer or the MLP): once
\* per pass.
InitWeightsParam(p, name, n_layer, rescale_prenorm_residual, n_residuals_per_layer) ==
    IF rescale_prenorm_residual /\ name \in RescaledNames
    THEN DivSqrt(KaimingUniform(p), n_residuals_per_layer * n_layer)
    ELSE p

ApplyInitWeights(ps, n_layer, rescale_prenorm_residual, n_residuals_per_layer) ==
    [k \in DOMAIN ps |->
        InitWeightsParam(ps[k], k[3], n_layer, rescale_prenorm_residual,
                         n_residuals_per_layer)]

\* n_residuals_per_layer as MixerModel.__init__ passes it
MixerResiduals(d_intermediate) == IF d_intermediate = 0 THEN 1 ELSE 2

\* n_residuals_per_layer in MambaModel.__init__'s pass: not passed, so the
\* default of _init_weights
MambaResiduals == 1

\* nn.init.normal_ on an embedding weight (in place)
InitEmbedding(t) == [t EXCEPT !.init = "normal"]

-----------------------------------------------------------------------------
(* MixerModel.__init__ / MambaModel.__init__ / tie_weights *)

\* Mutant of FusedKernelsMissing: the check is skipped.
FusedCheckSkipped(fused_add_norm, have_kernels) == FALSE

FusedKernelsMissing(fused_add_norm, have_kernels) ==
    fused_add_norm /\ ~have_kernels

\* Mutant of TieWeights: the head keeps its own tensor.
TieWeightsNever(tie_embeddings, lm, emb) == lm

TieWeights(tie_embeddings, lm, emb) == IF tie_embeddings THEN emb ELSE lm

NoTensor == [rows |-> 0, init |-> "unallocated", data |-> 0]
NewTensor(rows) == [rows |-> rows, init |-> "ctor", data |-> 0]

NoCache == [called |-> FALSE, batch_size |-> 0, max_seqlen |-> 0, dtype |-> "None",
            value |-> <<>>]

BBInit ==
    /\ target \in {"MambaModel", "MixerModel"}
    /\ config \in Configs
    /\ kernels \in BOOLEAN
    /\ ssm_cfg = config.ssm_cfg
    /\ pc = "new"
    /\ err = NoErr
    /\ table_size = 0
    /\ layers = <<>>
    /\ norm_f = "none"
    /\ params = [k \in {} |-> CtorWeight]
    /\ emb_weight = "none"
    /\ lm_weight = "none"
    /\ store = [T_emb |-> NoTensor, T_lm |-> NoTensor]
    /\ cache = NoCache

MambaModel_init_pad ==
    /\ pc = "new" /\ target = "MambaModel"
    /\ table_size' = PadVocab(config.vocab_size, config.pad_vocab_size_multiple)
    /\ pc' = "backbone"
    /\ UNCHANGED <<target, config, kernels, ssm_cfg, err, layers, norm_f,
                   params, emb_weight, lm_weight, store, cache, tokVars>>

MixerModel_init_embedding ==
    /\ \/ pc = "backbone"
       \/ pc = "new" /\ target = "MixerModel"
    /\ LET size == IF target = "MixerModel" THEN config.vocab_size ELSE table_size
       IN  /\ table_size' = size
           /\ emb_weight' = "T_emb"
           /\ store' = [store EXCEPT !["T_emb"] = NewTensor(size)]
    /\ IF FusedKernelsMissing(config.fused_add_norm, kernels)
       THEN pc' = "error" /\ err' = ImportError
       ELSE pc' = "layers" /\ err' = err
    /\ UNCHANGED <<target, config, kernels, ssm_cfg, layers, norm_f, params,
                   lm_weight, cache, tokVars>>

MixerModel_init_layer ==
    /\ pc = "layers" /\ Len(layers) < config.n_layer
    /\ LET r == create_block(config.d_intermediate, ssm_cfg,
                             config.attn_layer_idx, config.rms_norm,
                             config.fused_add_norm, Len(layers), kernels)
       IN  /\ ssm_cfg' = r.caller
           /\ IF r.raised # NoErr
              THEN /\ pc' = "error" /\ err' = r.raised
                   /\ UNCHANGED <<layers, params>>
              ELSE /\ pc' = pc /\ err' = err
                   /\ layers' = Append(layers, r.block)
                   /\ params' = [k \in DOMAIN params \cup BlockParamKeys(r.block) |->
                                    IF k \in DOMAIN params THEN params[k] ELSE CtorWeight]
    /\ UNCHANGED <<target, config, kernels, table_size, norm_f, emb_weight,
                   lm_weight, store, cache, tokVars>>

MixerModel_init_norm_f ==
    /\ pc = "layers" /\ Len(layers) = config.n_layer
    /\ IF config.rms_norm /\ ~kernels
       THEN pc' = "error" /\ err' = TypeError(NoneNotCallable) /\ norm_f' = norm_f
       ELSE /\ pc' = "mixer_apply" /\ err' = err
            /\ norm_f' = IF ~config.rms_norm THEN "LayerNorm" ELSE "RMSNorm"
    /\ UNCHANGED <<target, config, kernels, ssm_cfg, table_size, layers,
                   params, emb_weight, lm_weight, store, cache, tokVars>>

MixerModel_init_apply ==
    /\ pc = "mixer_apply"
    /\ params' = ApplyInitWeights(params, config.n_layer,
                                  config.rescale_prenorm_residual,
                                  MixerResiduals(config.d_intermediate))
    /\ store' = [store EXCEPT ![emb_weight] = InitEmbedding(@)]
    /\ pc' = IF target = "MixerModel" THEN "done" ELSE "lm_head"
    /\ UNCHANGED <<target, config, kernels, ssm_cfg, err, table_size, layers,
                   norm_f, emb_weight, lm_weight, cache, tokVars>>

MambaModel_init_lm_head ==
    /\ pc = "lm_head"
    /\ lm_weight' = "T_lm"
    /\ store' = [store EXCEPT !["T_lm"] = NewTensor(table_size)]
    /\ pc' = "mamba_apply"
    /\ UNCHANGED <<target, config, kernels, ssm_cfg, err, table_size, layers,
                   norm_f, params, emb_weight, cache, tokVars>>

MambaModel_init_apply ==
    /\ pc = "mamba_apply"
    /\ params' = ApplyInitWeights(params, config.n_layer,
                                  config.rescale_prenorm_residual,
                                  MambaResiduals)
    /\ store' = [store EXCEPT ![emb_weight] = InitEmbedding(@)]
    /\ pc' = "tie"
    /\ UNCHANGED <<target, config, kernels, ssm_cfg, err, table_size, layers,
                   norm_f, emb_weight, lm_weight, cache, tokVars>>

\* the tie_weights() call that ends MambaModel.__init__
MambaModel_init_tie ==
    /\ pc = "tie"
    /\ lm_weight' = TieWeights(config.tie_embeddings, lm_weight, emb_weight)
    /\ pc' = "done"
    /\ UNCHANGED <<target, config, kernels, ssm_cfg, err, table_size, layers,
                   norm_f, params, emb_weight, store, cache, tokVars>>

\* ---- MambaModel.from_pretrained ----

\* what the checkpoint holds for the embedding and for the head
Checkpoints == {[emb |-> 0, lm |-> 1], [emb |-> 1, lm |-> 1]}
FromCheckpoint == [init |-> "checkpoint", divs |-> <<>>]

\* param.copy_(input_param): the tensor object stays, its contents become
\* the checkpoint's
CopyInto(t, data) == [t EXCEPT !.init = "checkpoint", !.data = data]

\* model.load_state_dict(...): every parameter is overwritten in place, the
\* backbone's before the head's
LoadStateDict(st, emb, lm, ck) ==
    LET s1 == [st EXCEPT ![emb] = CopyInto(@, ck.emb)]
    IN  [s1 EXCEPT ![lm] = CopyInto(@, ck.lm)]

\* from_pretrained after cls(config, ...) has returned: the checkpoint, which
\* belongs to the configuration just built, is loaded and the model returned
MambaModel_from_pretrained ==
    /\ pc = "done" /\ target = "MambaModel"
    /\ \E ck \in Checkpoints :
          store' = LoadStateDict(store, emb_weight, lm_weight, ck)
    /\ params' = [k \in DOMAIN params |-> FromCheckpoint]
    /\ pc' = "loaded"
    /\ UNCHANGED <<target, config, kernels, ssm_cfg, err, table_size, layers,
                   norm_f, emb_weight, lm_weight, cache, tokVars>>

\* an explicit model.tie_weights() on the built model
tie_weights ==
    /\ pc \in {"done", "loaded"} /\ target = "MambaModel"
    /\ lm_weight' = TieWeights(config.tie_embeddings, lm_weight, emb_weight)
    /\ UNCHANGED <<target, config, kernels, ssm_cfg, pc, err, table_size,
                   layers, norm_f, params, emb_weight, store, cache, tokVars>>

\* an in-place write to a weight, reached through one of the two modules
WriteWeight ==
    /\ pc \in {"done", "loaded"}
    /\ \E via \in {emb_weight} \cup (IF target = "MambaModel" THEN {lm_weight} ELSE {}) :
          store' = [store EXCEPT ![via].data = 1 - @]
    /\ UNCHANGED <<target, config, kernels, ssm_cfg, pc, err, table_size,
                   layers, norm_f, params, emb_weight, lm_weight, cache, tokVars>>

\* ---- allocate_inference_cache ----

\* the calls made: the defaults' dtype=None, and a call that names a dtype
CacheCalls ==
    {[batch_size |-> 1, max_seqlen |-> 8, dtype |-> "None"],
     [batch_size |-> 2, max_seqlen |-> 16, dtype |-> "float16"]}

\* Block.allocate_inference_cache: the layer hands the request to its own
\* mixer; what comes back is that mixer's state for the given batch size,
\* sequence length and dtype
LayerAllocate(layer, batch_size, max_seqlen, dtype) ==
    [layer_idx |-> layer.layer_idx, mixer |-> layer.mixer,
     batch_size |-> batch_size, max_seqlen |-> max_seqlen, dtype |-> dtype]

\* a comprehension that numbers the layers from 1
MixerAllocateFromOne(blocks, batch_size, max_seqlen, dtype) ==
    [i \in 1..Len(blocks) |-> LayerAllocate(blocks[i], batch_size, max_seqlen, dtype)]

\* MixerModel.allocate_inference_cache: {i: layer.allocate_inference_cache(...)
\* for i, layer in enumerate(self.layers)}
MixerAllocate(blocks, batch_size, max_seqlen, dtype) ==
    [i \in 0..(Len(blocks) - 1) |->
        LayerAllocate(blocks[i + 1], batch_size, max_seqlen, dtype)]

\* MambaModel.allocate_inference_cache: the backbone's answer
MambaAllocate(blocks, batch_size, max_seqlen, dtype) ==
    MixerAllocate(blocks, batch_size, max_seqlen, dtype)

allocate_inference_cache ==
    /\ pc \in {"done", "loaded"}
    /\ \E call \in CacheCalls :
          cache' = [called |-> TRUE, batch_size |-> call.batch_size,
                    max_seqlen |-> call.max_seqlen, dtype |-> call.dtype,
                    value |-> IF target = "MambaModel"
                              THEN MambaAllocate(layers, call.batch_size,
                                                 call.max_seqlen, call.dtype)
                              ELSE MixerAllocate(layers, call.batch_size,
                                                 call.max_seqlen, call.dtype)]
    /\ UNCHANGED <<target, config, kernels, ssm_cfg, pc, err, table_size,
                   layers, norm_f, params, emb_weight, lm_weight, store, tokVars>>

-----------------------------------------------------------------------------
(* tokenizer.py: GenomeTokenizer over the tokenizers library *)

\* Bounds of the model
MaxVocabSize == 12
MaxTrainLen == 3
MaxSeqLen == 3
MaxBatch == 2

\* Characters in ascending code-point order. A string is a sequence of
\* characters; a token is a string; a special token is one opaque symbol.
Chars == <<" ", "A", "C", "N">>
TrainChars == {"A", "C"}
InputChars == {" ", "A", "C", "N"}

SeqsUpTo(S, n) == UNION {[1..k -> S] : k \in 0..n}
Range(f) == {f[i] : i \in DOMAIN f}
InSeq(sq, x) == \E i \in DOMAIN sq : sq[i] = x

RECURSIVE Flatten(_)
Flatten(ss) == IF ss = <<>> THEN <<>> ELSE Head(ss) \o Flatten(Tail(ss))

RECURSIVE SumSeq(_)
SumSeq(ns) == IF ns = <<>> THEN 0 ELSE Head(ns) + SumSeq(Tail(ns))

DefaultSpecialTokens ==
    << <<"[UNK]">>, <<"[PAD]">>, <<"[MASK]">>, <<"[START]">>, <<"[END]">>,
       <<"[SNP]">>, <<"[INS]">>, <<"[DEL]">> >>

\* self.special_tokens = special_tokens or [...]: None and [] give the default
SpecialTokensOr(arg) == IF arg = <<>> THEN DefaultSpecialTokens ELSE arg

\* TemplateProcessing(single="[START] $A [END]", special_tokens=[("[START]", 1), ("[END]", 2)])
StartToken == <<"[START]">>
EndToken == <<"[END]">>
StartId == 1
EndId == 2

\* BPE(): no unk_token is configured (<<>> stands for None)
NoUnkToken == <<>>

\* Tokenizer(BPE()) with the pre-tokenizer and post-processor of __init__
NewTokenizer ==
    [vocab |-> <<>>, merges |-> <<>>, unk_token |-> NoUnkToken, added |-> {},
     post |-> [start |-> <<StartToken, StartId>>, end |-> <<EndToken, EndId>>]]

InVocab(vocab, tok) == InSeq(vocab, tok)
\* ids are positions in the vocabulary, from 0
IdOf(vocab, tok) == (CHOOSE i \in DOMAIN vocab : vocab[i] = tok) - 1

\* pre_tokenizers.Whitespace(): the maximal runs of word characters
RECURSIVE SplitWords(_, _, _)
SplitWords(str, cur, acc) ==
    IF str = <<>> THEN (IF cur = <<>> THEN acc ELSE Append(acc, cur))
    ELSE IF Head(str) = " "
         THEN SplitWords(Tail(str), <<>>, IF cur = <<>> THEN acc ELSE Append(acc, cur))
         ELSE SplitWords(Tail(str), Append(cur, Head(str)), acc)
PreTokenize(str) == SplitWords(str, <<>>, <<>>)

\* ---- BpeTrainer(vocab_size, special_tokens) / train_from_iterator ----

\* BpeTrainer's default min_frequency
MinFrequency == 0

RECURSIVE Dedup(_, _)
Dedup(sq, acc) ==
    IF sq = <<>> THEN acc
    ELSE Dedup(Tail(sq), IF InSeq(acc, Head(sq)) THEN acc ELSE Append(acc, Head(sq)))

\* every word of every sequence, split into one-character symbols
CorpusWords(sequences) ==
    LET ws == Flatten([i \in DOMAIN sequences |-> PreTokenize(sequences[i])])
    IN  [k \in DOMAIN ws |-> [j \in DOMAIN ws[k] |-> <<ws[k][j]>>]]

CorpusAlphabet(sequences) ==
    {c \in Range(Chars) : \E i \in DOMAIN sequences :
        c # " " /\ InSeq(sequences[i], c)}

\* special tokens first, then the whole alphabet in code-point order; the
\* target size does not limit either
InitialVocab(specials, sequences) ==
    LET alpha == SelectSeq(Chars, LAMBDA c : c \in CorpusAlphabet(sequences))
    IN  Dedup(specials \o [i \in DOMAIN alpha |-> <<alpha[i]>>], <<>>)

PairsIn(words) ==
    UNION {{<<words[k][i], words[k][i + 1]>> : i \in 1..(Len(words[k]) - 1)} :
              k \in DOMAIN words}
PairCount(words, pr) ==
    SumSeq([k \in DOMAIN words |->
        Cardinality({i \in 1..(Len(words[k]) - 1) :
            words[k][i] = pr[1] /\ words[k][i + 1] = pr[2]})])

\* highest count first; among equal counts the smallest pair of ids
BestPair(vocab, words) ==
    LET cands == PairsIn(words)
        Key(pr) == <<PairCount(words, pr), IdOf(vocab, pr[1]), IdOf(vocab, pr[2])>>
        Before(x, y) ==
            \/ x[1] > y[1]
            \/ x[1] = y[1] /\ x[2] < y[2]
            \/ x[1] = y[1] /\ x[2] = y[2] /\ x[3] <= y[3]
    IN  CHOOSE pr \in cands : \A q \in cands : Before(Key(pr), Key(q))

\* Word.merge: left to right, non-overlapping
RECURSIVE MergeWord(_, _, _)
MergeWord(w, a, b) ==
    IF Len(w) < 2 THEN w
    ELSE IF w[1] = a /\ w[2] = b
         THEN <<a \o b>> \o MergeWord(SubSeq(w, 3, Len(w)), a, b)
         ELSE <<w[1]>> \o MergeWord(Tail(w), a, b)

RECURSIVE TrainMerges(_, _, _, _)
TrainMerges(vocab, merges, words, size) ==
    IF Len(vocab) >= size \/ PairsIn(words) = {}
    THEN [vocab |-> vocab, merges |-> merges]
    ELSE LET pr == BestPair(vocab, words)
             new == pr[1] \o pr[2]
         IN  IF PairCount(words, pr) < 1 \/ MinFrequency > PairCount(words, pr)
             THEN [vocab |-> vocab, merges |-> merges]
             ELSE TrainMerges(
                     IF InVocab(vocab, new) THEN vocab ELSE Append(vocab, new),
                     Append(merges, pr),
                     [k \in DOMAIN words |-> MergeWord(words[k], pr[1], pr[2])],
                     size)

\* tokenizer.train_from_iterator(sequences, trainer): the model's vocabulary
\* and merges are replaced, the special tokens are registered, the rest of
\* the tokenizer (unk_token, post-processor) is kept
TrainFromIterator(t, sequences, size, specials) ==
    LET m == TrainMerges(InitialVocab(specials, sequences), <<>>,
                         CorpusWords(sequences), size)
    IN  [t EXCEPT !.vocab = m.vocab, !.merges = m.merges,
                  !.added = t.added \cup Range(specials)]

\* ---- tokenizer.encode ----

\* one symbol per known character; an unknown character becomes the unk
\* token when one is configured, and is skipped otherwise
CharSymbols(t, word) ==
    Flatten([i \in DOMAIN word |->
        IF InVocab(t.vocab, <<word[i]>>) THEN << <<word[i]>> >>
        ELSE IF t.unk_token # NoUnkToken /\ InVocab(t.vocab, t.unk_token)
             THEN << t.unk_token >>
             ELSE <<>>])

MergeRank(merges, pr) == CHOOSE r \in DOMAIN merges : merges[r] = pr

\* Word.merge_all: the adjacent pair of lowest rank, leftmost first
RECURSIVE ApplyMerges(_, _)
ApplyMerges(symbols, merges) ==
    LET at == {i \in 1..(Len(symbols) - 1) : InSeq(merges, <<symbols[i], symbols[i + 1]>>)}
        rk(i) == MergeRank(merges, <<symbols[i], symbols[i + 1]>>)
    IN  IF at = {} THEN symbols
        ELSE LET i == CHOOSE x \in at : \A y \in at :
                          rk(x) < rk(y) \/ (rk(x) = rk(y) /\ x <= y)
             IN  ApplyMerges(SubSeq(symbols, 1, i - 1)
                                \o <<symbols[i] \o symbols[i + 1]>>
                                \o SubSeq(symbols, i + 2, Len(symbols)),
                             merges)

EncodeBody(t, sequence) ==
    LET ws == PreTokenize(sequence)
    IN  Flatten([k \in DOMAIN ws |-> ApplyMerges(CharSymbols(t, ws[k]), t.merges)])

\* Mutant of PostProcess: the end marker is left out.
PostProcessNoEnd(t, body) ==
    [tokens |-> <<t.post.start[1]>> \o body,
     ids |-> <<t.post.start[2]>> \o [i \in DOMAIN body |-> IdOf(t.vocab, body[i])]]

\* TemplateProcessing "[START] $A [END]" with the ids given at construction
PostProcess(t, body) ==
    [tokens |-> <<t.post.start[1]>> \o body \o <<t.post.end[1]>>,
     ids |-> <<t.post.start[2]>> \o [i \in DOMAIN body |-> IdOf(t.vocab, body[i])]
                \o <<t.post.end[2]>>]

\* GenomeTokenizer.tokenize
Tokenize(t, sequence) == PostProcess(t, EncodeBody(t, sequence))

\* ---- tokenizer.decode (skip_special_tokens, no decoder: joined by spaces) ----

RECURSIVE JoinSpace(_)
JoinSpace(toks) ==
    IF toks = <<>> THEN <<>>
    ELSE IF Len(toks) = 1 THEN toks[1]
    ELSE toks[1] \o <<" ">> \o JoinSpace(Tail(toks))

\* GenomeTokenizer.detokenize
Detokenize(t, token_ids) ==
    LET known == SelectSeq(token_ids, LAMBDA id : id >= 0 /\ id < Len(t.vocab))
        toks == [i \in DOMAIN known |-> t.vocab[known[i] + 1]]
    IN  JoinSpace(SelectSeq(toks, LAMBDA tok : tok \notin t.added))

\* ---- batches ----

\* Mutant of TokenizeBatch: the result is built back to front.
RECURSIVE TokenizeBatchReversed(_, _)
TokenizeBatchReversed(t, sequences) ==
    IF sequences = <<>> THEN <<>>
    ELSE TokenizeBatchReversed(t, Tail(sequences)) \o <<Tokenize(t, Head(sequences))>>

\* [self.tokenize(seq) for seq in sequences]
RECURSIVE TokenizeBatch(_, _)
TokenizeBatch(t, sequences) ==
    IF sequences = <<>> THEN <<>>
    ELSE <<Tokenize(t, Head(sequences))>> \o TokenizeBatch(t, Tail(sequences))

\* [self.detokenize(ids) for ids in batch_ids]
RECURSIVE DetokenizeBatch(_, _)
DetokenizeBatch(t, batch_ids) ==
    IF batch_ids = <<>> THEN <<>>
    ELSE <<Detokenize(t, Head(batch_ids))>> \o DetokenizeBatch(t, Tail(batch_ids))

\* ---- inputs ----

\* training sets: one sequence of up to MaxTrainLen characters, or two
\* shorter ones
Corpora ==
    {<<x>> : x \in SeqsUpTo(TrainChars, MaxTrainLen)}
    \cup {<<x, y>> : x, y \in SeqsUpTo(TrainChars, MaxTrainLen - 1)}
InputSeqs == SeqsUpTo(InputChars, MaxSeqLen)
BatchItems == {<<>>, <<"A">>, <<"A", "C">>, <<"N", "A">>, <<"C", " ", "A">>}
IdLists == {<<>>, <<1, 8, 2>>, <<8, 9>>, <<10, 50>>}
SpecialTokenArgs == {<<>>, << <<"[UNK]">> >>}

\* ---- Tokenizer.save / Tokenizer.from_file ----

\* the JSON document Tokenizer.save writes: the added tokens with their ids,
\* the post-processor, and the model with its vocabulary as a token -> id
\* object and its merges in rank order
Serialize(t) ==
    [version |-> "1.0",
     added_tokens |-> {[id |-> IdOf(t.vocab, tok), content |-> tok] : tok \in t.added},
     post_processor |-> t.post,
     model |-> [type |-> "BPE",
                unk_token |-> t.unk_token,
                vocab |-> {<<t.vocab[i], i - 1>> : i \in DOMAIN t.vocab},
                merges |-> t.merges]]

\* the Tokenizer object Tokenizer.from_file builds from such a document
Deserialize(json) ==
    [vocab |-> [i \in 1..Cardinality(json.model.vocab) |->
                   CHOOSE tok \in {e[1] : e \in json.model.vocab} :
                       <<tok, i - 1>> \in json.model.vocab],
     merges |-> json.model.merges,
     unk_token |-> json.model.unk_token,
     added |-> {a.content : a \in json.added_tokens},
     post |-> json.post_processor]

NoFile == [exists |-> FALSE, content |-> Serialize(NewTokenizer)]
NoResult == [op |-> "none", arg |-> <<>>, value |-> <<>>]
NoException == "none"

\* Tokenizer.from_file on a path that holds no file: the binding reports
\* every failure of the read, the missing file included, as a plain
\* Exception carrying the operating system's message
FromFileMissing == "Exception"
\* except FileNotFoundError:
HandlerCatches(exception) == exception = "FileNotFoundError"

\* an element of sequences that is not a str
NotAString == <<"None">>
BadCorpora == {<< <<"A">>, NotAString >>}
\* the items train_from_iterator has taken when it meets one that is not a
\* str: it stops reading there
FitPrefix(sequences) ==
    LET bad == {i \in DOMAIN sequences : sequences[i] = NotAString}
    IN  IF bad = {} THEN sequences
        ELSE SubSeq(sequences, 1, (CHOOSE i \in bad : \A j \in bad : i <= j) - 1)

\* what stops the fit: BpeTrainer refuses a negative vocab_size, before
\* anything is fitted; train_from_iterator reports an item that is not a
\* str, after it has fitted the tokenizer on the items before it
FitError(size, sequences) ==
    IF size < 0 THEN "OverflowError"
    ELSE IF \E i \in DOMAIN sequences : sequences[i] = NotAString THEN "TypeError"
    ELSE NoException

\* model_path: str = "genomic_tokenizer.json"
DefaultModelPath == "genomic_tokenizer.json"
MinVocabSize == -1
\* vocab_size as given: negative, zero, and from one below the number of
\* default special tokens up to the bound
VocabSizes ==
    {MinVocabSize, 0} \cup ((Len(DefaultSpecialTokens) - 1)..MaxVocabSize)

TokInit ==
    /\ model_path = DefaultModelPath
    /\ vocab_size \in VocabSizes
    /\ special_tokens \in {SpecialTokensOr(a) : a \in SpecialTokenArgs}
    /\ tokenizer = NewTokenizer
    /\ file = NoFile
    /\ trained = FALSE
    /\ tpc = "idle"
    /\ result = NoResult

\* a train that writes model_path before it fits
train_saving_first ==
    /\ tpc = "idle"
    /\ file' = [exists |-> TRUE, content |-> Serialize(tokenizer)]
    /\ \E sequences \in Corpora \cup BadCorpora :
          LET failure == FitError(vocab_size, sequences)
          IN  /\ result' = [op |-> "train", arg |-> sequences,
                            value |-> [exception |-> failure]]
              /\ IF failure = "OverflowError"
                 THEN /\ tpc' = "raised"
                      /\ UNCHANGED <<tokenizer, trained>>
                 ELSE /\ tokenizer' = TrainFromIterator(tokenizer, FitPrefix(sequences),
                                                        vocab_size, special_tokens)
                      /\ IF failure # NoException
                         THEN tpc' = "raised" /\ UNCHANGED trained
                         ELSE tpc' = "returned" /\ trained' = TRUE
    /\ UNCHANGED <<model_path, vocab_size, special_tokens, bbVars>>

train ==
    /\ tpc = "idle"
    /\ \E sequences \in Corpora \cup BadCorpora :
          LET failure == FitError(vocab_size, sequences)
          IN  /\ result' = [op |-> "train", arg |-> sequences,
                            value |-> [exception |-> failure]]
              /\ IF failure = "OverflowError"
                 THEN \* BpeTrainer(...) raised: nothing was fitted
                      /\ tpc' = "raised"
                      /\ UNCHANGED <<tokenizer, file, trained>>
                 ELSE LET fitted == TrainFromIterator(tokenizer, FitPrefix(sequences),
                                                      vocab_size, special_tokens)
                      IN  /\ tokenizer' = fitted
                          /\ IF failure # NoException
                             THEN \* train_from_iterator raised after fitting on
                                  \* the prefix: save_tokenizer is not reached
                                  /\ tpc' = "raised"
                                  /\ UNCHANGED <<file, trained>>
                             ELSE /\ file' = [exists |-> TRUE,
                                              content |-> Serialize(fitted)]
                                  /\ trained' = TRUE
                                  /\ tpc' = "returned"
    /\ UNCHANGED <<model_path, vocab_size, special_tokens, bbVars>>

save_tokenizer ==
    /\ tpc = "idle"
    /\ file' = [exists |-> TRUE, content |-> Serialize(tokenizer)]
    /\ result' = [op |-> "save_tokenizer", arg |-> <<>>, value |-> <<>>]
    /\ tpc' = "returned"
    /\ UNCHANGED <<model_path, vocab_size, special_tokens, tokenizer, trained, bbVars>>

load_tokenizer ==
    /\ tpc = "idle"
    /\ IF file.exists
       THEN /\ tokenizer' = Deserialize(file.content)
            /\ result' = [op |-> "load_tokenizer", arg |-> <<>>,
                          value |-> [exception |-> NoException, error_logged |-> FALSE]]
            /\ tpc' = "returned"
       ELSE /\ tokenizer' = tokenizer
            /\ result' = [op |-> "load_tokenizer", arg |-> <<>>,
                          value |-> [exception |-> FromFileMissing,
                                     error_logged |-> HandlerCatches(FromFileMissing)]]
            /\ tpc' = "raised"
    /\ UNCHANGED <<model_path, vocab_size, special_tokens, file, trained, bbVars>>

\* a tokenize that forgets the merges as it encodes
tokenize_forgetting ==
    /\ tpc = "idle"
    /\ \E sequence \in InputSeqs :
          result' = [op |-> "tokenize", arg |-> sequence,
                     value |-> Tokenize(tokenizer, sequence)]
    /\ tokenizer' = [tokenizer EXCEPT !.merges = <<>>]
    /\ tpc' = "returned"
    /\ UNCHANGED <<model_path, vocab_size, special_tokens, file, trained, bbVars>>

tokenize ==
    /\ tpc = "idle"
    /\ \E sequence \in InputSeqs :
          result' = [op |-> "tokenize", arg |-> sequence,
                     value |-> Tokenize(tokenizer, sequence)]
    /\ tpc' = "returned"
    /\ UNCHANGED <<model_path, vocab_size, special_tokens, tokenizer, file, trained, bbVars>>

detokenize ==
    /\ tpc = "idle"
    /\ \E token_ids \in IdLists :
          result' = [op |-> "detokenize", arg |-> token_ids,
                     value |-> Detokenize(tokenizer, token_ids)]
    /\ tpc' = "returned"
    /\ UNCHANGED <<model_path, vocab_size, special_tokens, tokenizer, file, trained, bbVars>>

tokenize_batch ==
    /\ tpc = "idle"
    /\ \E sequences \in SeqsUpTo(BatchItems, MaxBatch) :
          result' = [op |-> "tokenize_batch", arg |-> sequences,
                     value |-> TokenizeBatch(tokenizer, sequences)]
    /\ tpc' = "returned"
    /\ UNCHANGED <<model_path, vocab_size, special_tokens, tokenizer, file, trained, bbVars>>

detokenize_batch ==
    /\ tpc = "idle"
    /\ \E batch_ids \in SeqsUpTo(IdLists, MaxBatch) :
          result' = [op |-> "detokenize_batch", arg |-> batch_ids,
                     value |-> DetokenizeBatch(tokenizer, batch_ids)]
    /\ tpc' = "returned"
    /\ UNCHANGED <<model_path, vocab_size, special_tokens, tokenizer, file, trained, bbVars>>

\* ---- input_processing.py: embed_genomic ----

\* dim: int = None; an absent value is the empty sequence
NoneDim == <<>>
EmbeddingDim == 4
Dims == {NoneDim, <<EmbeddingDim>>}

\* [item["ids"] for item in tokenized_data]
IdsOf(tokenized_data) == [i \in DOMAIN tokenized_data |-> tokenized_data[i].ids]

\* torch.tensor(list of lists) accepts only rows of one length
Rectangular(rows) == \A i, j \in DOMAIN rows : Len(rows[i]) = Len(rows[j])

\* reading .shape of the object bound to genomic_embeddings, which is the
\* GenomicEmbeddingModel module itself (its forward is never called): a
\* Module has no such attribute
ShapeOfModule == [exception |-> "AttributeError", shape |-> <<>>]

\* the body of embed_genomic after the opening log line
EmbedGenomic(t, size, sequences, dim) ==
    LET genomic_input_ids == IdsOf(TokenizeBatch(t, sequences))
    IN  IF ~Rectangular(genomic_input_ids)
        THEN [exception |-> "ValueError", shape |-> <<>>]
        ELSE IF dim = NoneDim
        THEN [exception |-> "TypeError", shape |-> <<>>]
        ELSE IF size < 0
        THEN [exception |-> "RuntimeError", shape |-> <<>>]
        ELSE ShapeOfModule

\* the batches embedded: none, one sequence, two that tokenize to the same
\* length, two that tokenize to different lengths
EmbedBatches ==
    {<<>>, << <<"A">> >>, << <<"A">>, <<"C">> >>, << <<"A">>, <<"C", " ", "A">> >>}

embed_genomic ==
    /\ tpc = "idle"
    /\ \E sequences \in EmbedBatches, dim \in Dims :
          LET out == EmbedGenomic(tokenizer, vocab_size, sequences, dim)
          IN  /\ result' = [op |-> "embed_genomic",
                            arg |-> [sequences |-> sequences, dim |-> dim],
                            value |-> out]
              /\ tpc' = IF out.exception = NoException THEN "returned" ELSE "raised"
    /\ UNCHANGED <<model_path, vocab_size, special_tokens, tokenizer, file, trained, bbVars>>

\* the caller takes the returned value (or handles the exception) and goes on
Continue ==
    /\ tpc \in {"returned", "raised"}
    /\ tpc' = "idle"
    /\ result' = NoResult
    /\ UNCHANGED <<model_path, vocab_size, special_tokens, tokenizer, file, trained, bbVars>>

-----------------------------------------------------------------------------
(* The two specifications *)

TokFrozen ==
    /\ model_path = DefaultModelPath
    /\ vocab_size = 0 /\ special_tokens = DefaultSpecialTokens
    /\ tokenizer = NewTokenizer /\ file = NoFile /\ trained = FALSE
    /\ tpc = "idle" /\ result = NoResult

BBFrozen ==
    /\ target = "MixerModel"
    /\ config = CHOOSE c \in Configs : c.n_layer = 0
    /\ kernels = TRUE
    /\ ssm_cfg = config.ssm_cfg
    /\ pc = "unused"
    /\ err = NoErr
    /\ table_size = 0
    /\ layers = <<>>
    /\ norm_f = "none"
    /\ params = [k \in {} |-> CtorWeight]
    /\ emb_weight = "none"
    /\ lm_weight = "none"
    /\ store = [T_emb |-> NoTensor, T_lm |-> NoTensor]
    /\ cache = NoCache

Init == BBInit /\ TokFrozen

Next ==
    \/ MambaModel_init_pad
    \/ MixerModel_init_embedding
    \/ MixerModel_init_layer
    \/ MixerModel_init_norm_f
    \/ MixerModel_init_apply
    \/ MambaModel_init_lm_head
    \/ MambaModel_init_apply
    \/ MambaModel_init_tie
    \/ MambaModel_from_pretrained
    \/ tie_weights
    \/ WriteWeight
    \/ allocate_inference_cache

Spec == Init /\ [][Next]_vars

TokStart == TokInit /\ BBFrozen

TokNext ==
    \/ train
    \/ save_tokenizer
    \/ load_tokenizer
    \/ tokenize
    \/ detokenize
    \/ tokenize_batch
    \/ detokenize_batch
    \/ embed_genomic
    \/ Continue

TokSpec == TokStart /\ [][TokNext]_vars

-----------------------------------------------------------------------------
(* Properties of the backbone assembly *)

\* the constructor has returned
Constructed == pc = "done"
\* a model is in the caller's hands, from the constructor or from_pretrained
Built == pc \in {"done", "loaded"}
Allocated(t) == store[t].init # "unallocated"
ResidualsOf(d_intermediate) == IF d_intermediate = 0 THEN 1 ELSE 2
GivenSsmLayer == DictGet(config.ssm_cfg.items, "layer", "Mamba1")
InvalidSsmLayer == GivenSsmLayer \notin {"Mamba1", "Mamba2"}
HasSsmLayer == \E i \in 0..(config.n_layer - 1) : i \notin config.attn_layer_idx

IsPaddingOf(size, V, M) ==
    /\ size % M = 0
    /\ V <= size /\ size < V + M
    /\ (V % M = 0 => size = V)

\* C1: the table size MambaModel hands to the embedding and to lm_head is the
\* smallest multiple of pad_vocab_size_multiple not below vocab_size (a
\* multiple of M, V <= V' < V + M, and V itself when V is a multiple of M).
C1_VocabPadding ==
    target = "MambaModel" =>
        \A t \in {"T_emb", "T_lm"} :
            Allocated(t) =>
                IsPaddingOf(store[t].rows, config.vocab_size,
                            config.pad_vocab_size_multiple)

C1_Witness ==
    /\ Built /\ target = "MambaModel"
    /\ config.vocab_size % config.pad_vocab_size_multiple # 0
    /\ Allocated("T_lm") /\ store["T_lm"].rows > config.vocab_size
    /\ store["T_emb"].rows = store["T_lm"].rows

\* C2: once MambaModel construction has completed (and after any explicit
\* tie_weights call or weight write), with tie_embeddings the head and the
\* embedding hold the same tensor object, so both read the same contents;
\* without it they hold two distinct tensors.
C2_WeightTying ==
    (Built /\ target = "MambaModel") =>
        IF config.tie_embeddings
        THEN lm_weight = emb_weight /\ store[lm_weight] = store[emb_weight]
        ELSE lm_weight # emb_weight /\ lm_weight = "T_lm" /\ emb_weight = "T_emb"

C2_Witness ==
    /\ Built /\ target = "MambaModel" /\ config.tie_embeddings
    /\ lm_weight = emb_weight
    /\ store[lm_weight].data = 1

\* C3 (as claimed): once construction has completed with n_layer = L >= 1
\* (rescaling left enabled), every out_proj.weight / fc2.weight is a fresh
\* Kaiming initialisation divided exactly once, by sqrt(k*L), k = 1 without
\* an MLP and k = 2 with one.
C3_InitScaling ==
    (Constructed /\ config.n_layer >= 1 /\ config.rescale_prenorm_residual) =>
        \A k \in DOMAIN params :
            k[3] \in {"out_proj.weight", "fc2.weight"} =>
                params[k] = [init |-> "kaiming_uniform",
                             divs |-> <<ResidualsOf(config.d_intermediate)
                                        * config.n_layer>>]

\* C4: layer i is an attention block iff i is in attn_layer_idx; every other
\* layer is the state-space mixer the given ssm_cfg names (Mamba2 for
\* "Mamba2", Mamba otherwise), the same for every such layer, and the
\* caller's ssm_cfg object is as it was given.
C4_BlockSelection ==
    /\ ssm_cfg = config.ssm_cfg
    /\ \A n \in 1..Len(layers) :
          LET b == layers[n] IN
          /\ b.layer_idx = n - 1
          /\ (b.mixer = "MHA") <=> ((n - 1) \in config.attn_layer_idx)
          /\ ((n - 1) \notin config.attn_layer_idx) =>
                /\ b.mixer = (IF GivenSsmLayer = "Mamba2" THEN "Mamba2" ELSE "Mamba")
                /\ b.mixer_kwargs = DictDel(config.ssm_cfg.items, "layer")

C4_Witness ==
    /\ Built /\ Len(layers) = 2
    /\ layers[1].mixer = "Mamba2" /\ layers[2].mixer = "Mamba2"
    /\ DictHas(ssm_cfg.items, "layer")

\* C5 (as claimed, on an installation whose kernels import and for a model
\* of at least one layer): with an invalid ssm_cfg 'layer', construction
\* ends in the ValueError naming the value and never in a model, whatever
\* attn_layer_idx is.
C5_InvalidLayerAlwaysRaises ==
    (InvalidSsmLayer /\ kernels /\ config.n_layer >= 1
        /\ pc \in {"done", "error"}) =>
        pc = "error" /\ err = ValueError(GivenSsmLayer)

\* C5 (amended): with an invalid ssm_cfg 'layer' and at least one layer index
\* below n_layer outside attn_layer_idx, no model is produced, and when the
\* optional kernels import the error is the ValueError naming the value and
\* the two accepted ones; when no layer is a state-space layer the value is
\* never inspected and no ValueError is raised.
C5_InvalidLayerRaises ==
    InvalidSsmLayer =>
        /\ HasSsmLayer =>
              /\ ~Built
              /\ (pc = "error" /\ kernels) =>
                    err = [type |-> "ValueError",
                           msg |-> <<"Invalid ssm_layer: ", GivenSsmLayer,
                                     ", only support Mamba1 and Mamba2">>]
        /\ ~HasSsmLayer => err.type # "ValueError"

C5_Witness ==
    /\ pc = "error" /\ err.type = "ValueError"
    /\ err.msg[2] = "Mamba3"
    /\ Len(layers) = 1 /\ layers[1].mixer = "MHA"

\* C6: when the fused kernels failed to import, construction with
\* fused_add_norm ends in ImportError before any block is built; and no
\* built model uses a normalisation other than the configured one, nor was
\* built needing a kernel that is missing.
C6_FusedKernelsRequired ==
    /\ (config.fused_add_norm /\ ~kernels) =>
          /\ layers = <<>> /\ DOMAIN params = {} /\ norm_f = "none"
          /\ pc \in {"new", "backbone", "error"}
          /\ pc = "error" => err.type = "ImportError"
    /\ Built =>
          /\ (config.fused_add_norm \/ config.rms_norm) => kernels
          /\ norm_f = (IF config.rms_norm THEN "RMSNorm" ELSE "LayerNorm")
          /\ \A n \in 1..Len(layers) :
                /\ layers[n].norm = norm_f
                /\ layers[n].fused_add_norm = config.fused_add_norm

C6_Witness ==
    /\ pc = "error" /\ err.type = "ImportError"
    /\ config.fused_add_norm /\ ~kernels
    /\ config.n_layer > 0 /\ layers = <<>>

-----------------------------------------------------------------------------
(* Properties of the tokenizer *)

UnkToken == <<"[UNK]">>
\* the characters the trained vocabulary knows
TrainedAlphabet ==
    {c \in Range(Chars) : <<c>> \in Range(tokenizer.vocab) \ tokenizer.added}
\* special tokens plus alphabet: what the trainer keeps whatever the target
BaseVocabSize == Cardinality({tok \in Range(tokenizer.vocab) : Len(tok) = 1})
IsForeign(c) == c # " " /\ c \notin TrainedAlphabet
Tokenized == tpc = "returned" /\ result.op = "tokenize"

\* Lemma for C7: the bound does hold when V has room for what the trainer
\* always keeps (every special token and the whole alphabet) and for the
\* marker ids 1 and 2.
IdsBelowVocabSizeWhenRoom ==
    (trained /\ Tokenized /\ vocab_size >= 3 /\ vocab_size >= BaseVocabSize) =>
        \A i \in DOMAIN result.value.ids :
            result.value.ids[i] >= 0 /\ result.value.ids[i] < vocab_size

\* C7 (as claimed, for the default special tokens and any V with room for
\* them): after train with vocab_size = V, every id tokenize emits, the two
\* marker ids included, lies in [0, V).
C7_IdsBelowVocabSize ==
    (trained /\ Tokenized /\ special_tokens = DefaultSpecialTokens
        /\ vocab_size >= Len(DefaultSpecialTokens)) =>
        \A i \in DOMAIN result.value.ids :
            result.value.ids[i] >= 0 /\ result.value.ids[i] < vocab_size

\* C8: tokenize returns [START], the tokens of the body, [END], with as many
\* ids as tokens; the body tokens spell the input without its whitespace and
\* without the characters the vocabulary does not know; the empty string
\* gives exactly the two markers.
C8_MarkersWrapBody ==
    Tokenized =>
        LET toks == result.value.tokens
            ids == result.value.ids
            n == Len(toks)
            body == SubSeq(toks, 2, n - 1)
        IN  /\ Len(ids) = n /\ n >= 2
            /\ toks[1] = <<"[START]">> /\ toks[n] = <<"[END]">>
            /\ \A i \in DOMAIN body :
                  /\ body[i] \notin {<<"[START]">>, <<"[END]">>}
                  /\ tokenizer.vocab[ids[i + 1] + 1] = body[i]
            /\ Flatten(body) = SelectSeq(result.arg,
                                 LAMBDA c : <<c>> \in Range(tokenizer.vocab))
            /\ result.arg = <<>> => toks = << <<"[START]">>, <<"[END]">> >>

C8_Witness ==
    /\ Tokenized /\ trained /\ special_tokens = DefaultSpecialTokens
    /\ Len(result.value.tokens) = 4
    /\ Len(result.value.tokens[2]) = 2
    /\ result.value.tokens[4] = <<"[END]">>

\* C9 (as claimed, for the default special tokens and a non-empty trained
\* alphabet): after training, an input holding characters outside the
\* trained alphabet is tokenized with the unknown token [UNK], carrying the
\* unknown-token id, in the output.
C9_ForeignBecomesUnk ==
    (trained /\ Tokenized /\ special_tokens = DefaultSpecialTokens
        /\ TrainedAlphabet # {}
        /\ \E i \in DOMAIN result.arg : IsForeign(result.arg[i])) =>
        \E k \in DOMAIN result.value.tokens :
            /\ result.value.tokens[k] = UnkToken
            /\ result.value.ids[k] = IdOf(tokenizer.vocab, UnkToken)

\* C10: tokenize_batch(xs) has the length of xs and its i-th element is
\* tokenize(xs[i]); detokenize_batch(b)[i] is detokenize(b[i]).
C10_BatchIsElementwise ==
    /\ (tpc = "returned" /\ result.op = "tokenize_batch") =>
          /\ Len(result.value) = Len(result.arg)
          /\ \A i \in DOMAIN result.arg :
                result.value[i] = PostProcess(tokenizer, EncodeBody(tokenizer, result.arg[i]))
    /\ (tpc = "returned" /\ result.op = "detokenize_batch") =>
          /\ Len(result.value) = Len(result.arg)
          /\ \A i \in DOMAIN result.arg :
                result.value[i] = Detokenize(tokenizer, result.arg[i])

C10_Witness ==
    /\ tpc = "returned" /\ result.op = "tokenize_batch" /\ trained
    /\ special_tokens = DefaultSpecialTokens
    /\ Len(result.arg) = 2
    /\ Len(result.value[1].ids) = 2 /\ Len(result.value[2].ids) > 2


ReadOnlyOps == {"tokenize", "detokenize", "tokenize_batch", "detokenize_batch"}
\* what the tokenizer object t answers to the call op(arg)
Answer(t, op, arg) ==
    CASE op = "tokenize" -> Tokenize(t, arg)
      [] op = "detokenize" -> Detokenize(t, arg)
      [] op = "tokenize_batch" -> TokenizeBatch(t, arg)
      [] op = "detokenize_batch" -> DetokenizeBatch(t, arg)

\* C11: a call of tokenize, detokenize, tokenize_batch or detokenize_batch
\* leaves the tokenizer object (vocabulary, merges, post-processor), the
\* file at model_path, model_path itself and the configuration as they were,
\* and what it returns is what the tokenizer left behind answers to the same
\* input: between two train/load calls the same input gets the same output.
C11_TokenizationReadsOnly ==
    [][(tpc = "idle" /\ result'.op \in ReadOnlyOps) =>
          /\ tokenizer' = tokenizer
          /\ file' = file
          /\ model_path' = model_path
          /\ vocab_size' = vocab_size /\ special_tokens' = special_tokens
          /\ tpc' = "returned"
          /\ result'.value = Answer(tokenizer', result'.op, result'.arg)]_vars

C11_Witness ==
    /\ Tokenized /\ trained
    /\ tokenizer.merges # <<>>
    /\ Len(result.value.ids) = 3


LoadFromMissing == tpc = "idle" /\ result'.op = "load_tokenizer" /\ ~file.exists
NotFoundErrors == {"FileNotFoundError"}

\* Lemma for C12: a load with no file at model_path never returns normally:
\* an exception reaches the caller and the tokenizer held before the call
\* is kept.
MissingFilePropagates ==
    [][LoadFromMissing =>
          /\ tpc' = "raised"
          /\ result'.value.exception # NoException
          /\ tokenizer' = tokenizer /\ file' = file]_vars

\* C12 (as claimed): load_tokenizer with no file at model_path fails with a
\* not-found error that is logged and propagated to the caller, and leaves
\* the tokenizer held before the call unchanged.
C12_MissingFileLoggedAndRaised ==
    [][LoadFromMissing =>
          /\ tpc' = "raised"
          /\ result'.value.exception \in NotFoundErrors
          /\ result'.value.error_logged
          /\ tokenizer' = tokenizer]_vars


RECURSIVE MaxLen(_)
MaxLen(rows) ==
    IF rows = <<>> THEN 0
    ELSE LET m == MaxLen(Tail(rows))
         IN  IF Len(Head(rows)) > m THEN Len(Head(rows)) ELSE m

\* C13 (as claimed, for a trained tokenizer with the default special tokens,
\* a vocab_size with room for them and an embedding dimension given): for a
\* non-empty batch, sequences of different token counts included,
\* embed_genomic completes and returns a dense tensor of shape
\* (batch, longest id sequence, embedding dimension).
C13_EmbedGenomicReturnsPadded ==
    (result.op = "embed_genomic" /\ trained
        /\ special_tokens = DefaultSpecialTokens
        /\ vocab_size >= Len(DefaultSpecialTokens)
        /\ result.arg.sequences # <<>> /\ result.arg.dim # NoneDim) =>
        /\ tpc = "returned"
        /\ result.value.exception = NoException
        /\ result.value.shape =
              <<Len(result.arg.sequences),
                MaxLen(IdsOf(TokenizeBatch(tokenizer, result.arg.sequences))),
                result.arg.dim[1]>>


\* C14 (as claimed, for the default special tokens and a vocab_size with
\* room for them): every (token, id) pair tokenize returns is a pair of the
\* trained vocabulary; the ids emitted for [START] and [END] are the ids the
\* trainer gave those tokens, and are not the ids of [PAD] or [MASK].
C14_PairsMatchVocabulary ==
    (trained /\ Tokenized /\ special_tokens = DefaultSpecialTokens
        /\ vocab_size >= Len(DefaultSpecialTokens)) =>
        LET toks == result.value.tokens
            ids == result.value.ids
        IN  /\ \A k \in DOMAIN toks :
                  /\ InVocab(tokenizer.vocab, toks[k])
                  /\ ids[k] = IdOf(tokenizer.vocab, toks[k])
            /\ \A k \in DOMAIN toks :
                  toks[k] \in {StartToken, EndToken} =>
                      ids[k] \notin {IdOf(tokenizer.vocab, <<"[PAD]">>),
                                     IdOf(tokenizer.vocab, <<"[MASK]">>)}


TrainStep == tpc = "idle" /\ result'.op = "train"
\* the sequences a reader of the file is asked to tokenize
LoadedProbeSeqs == {<<"A", "C">>, <<"C", " ", "A">>}

FitFailureSeen ==
    /\ tpc = "raised" /\ result.op = "train"
    /\ trained /\ file.exists
    /\ tokenizer # Deserialize(file.content)


\* C16: allocate_inference_cache returns a mapping whose keys are exactly
\* 0..n_layer-1; entry i is what layer i's own mixer allocates for the
\* batch_size, max_seqlen and dtype of the call; MambaModel returns what its
\* backbone returns; the mapping is empty when n_layer is 0.
C16_CachePerLayer ==
    cache.called =>
        /\ DOMAIN cache.value = 0..(config.n_layer - 1)
        /\ \A i \in 0..(config.n_layer - 1) :
              cache.value[i] =
                  [layer_idx |-> i,
                   mixer |-> layers[i + 1].mixer,
                   batch_size |-> cache.batch_size,
                   max_seqlen |-> cache.max_seqlen,
                   dtype |-> cache.dtype]
        /\ cache.value = MixerAllocate(layers, cache.batch_size, cache.max_seqlen,
                                       cache.dtype)
        /\ config.n_layer = 0 => DOMAIN cache.value = {}

C16_Witness ==
    /\ cache.called /\ target = "MambaModel"
    /\ config.n_layer = 2
    /\ cache.value[0].mixer = "MHA" /\ cache.value[1].mixer # "MHA"
    /\ cache.batch_size = 2 /\ cache.dtype = "float16"

====
